---------------------------- MODULE Spec2Model ----------------------------
(***************************************************************************)
(* gp-ai-studio: the App component (upload -> select -> processing ->      *)
(* result, with a billing gate) and the Gemini generation client           *)
(* (compressImage, cleanBase64, generateFurnitureImage with its retry      *)
(* loop and error translation).                                            *)
(*                                                                         *)
(* Strings the code searches with String.includes are modelled as          *)
(* sequences of words, and includes as a search for a contiguous run of    *)
(* words, case kept.  The Vietnamese messages are written without their    *)
(* diacritics.  A data URL is the sequence of its comma-separated          *)
(* segments.                                                               *)
(***************************************************************************)
EXTENDS Integers, Sequences, FiniteSets, TLC

VARIABLES
    step,           \* useState<AppStep>
    originalImage,  \* useState<string | null>: a data URL, NoImage for null
    resultImage,    \* useState<string | null>: a data URL, NoUrl for null
    costInfo,       \* useState<CostInfo | null>
    loading,        \* useState(false)
    error,          \* useState<string | null>: a message, NoError for null
    hasApiKey,      \* useState(false)
    checkingKey,    \* useState(true)
    pendingConnect, \* openSelectKey dialogs awaited by handleConnectBilling
    calls,          \* the generateFurnitureImage calls not yet settled
    last            \* how the latest call ended, NoCall once another is started

appVars == <<step, originalImage, resultImage, costInfo, loading, error,
             hasApiKey, checkingKey, pendingConnect>>
vars == <<step, originalImage, resultImage, costInfo, loading, error,
          hasApiKey, checkingKey, pendingConnect, calls, last>>

---------------------------------------------------------------------------
(* Bounds of the model *)

\* candidates plus parts of one mocked response
MaxResponseSize == 3
\* generateFurnitureImage calls the model lets be outstanding at once
MaxCalls == 2
\* openSelectKey dialogs the model lets be open at once
MaxPendingConnect == 1
\* largest image edge drawn for compressImage
MaxDimension == 2100

(* Program constants *)

MAX_RETRIES == 2
maxWidth == 1024
\* ESTIMATED_COST_USD = 0.002, in units of 1/10000 USD
ESTIMATED_COST_USD == 20
EXCHANGE_RATE == 25400

---------------------------------------------------------------------------
(* String.prototype.includes on word sequences *)

Includes(s, p) ==
    \E i \in 1..(Len(s) - Len(p) + 1) : SubSeq(s, i, i + Len(p) - 1) = p

(* Messages of the generation client *)

KEY_ERROR == <<"KEY_ERROR">>
NoImageMessage ==
    <<"Khong", "nhan", "duoc", "ket", "qua", "hinh", "anh", "tu", "Gemini.">>
OverloadedMessage ==
    <<"He", "thong", "dang", "qua", "tai", "(Rate", "Limit).",
      "Vui", "long", "thu", "lai", "sau", "it", "phut.">>
TooLargeMessage ==
    <<"Anh", "qua", "lon.", "Vui", "long", "chon", "anh", "nho", "hon.">>
\* candidates[0].content.parts with content undefined
TypeErrorMessage ==
    <<"Cannot", "read", "properties", "of", "undefined", "(reading", "'parts')">>

(* Messages of the App *)

DefaultDisplay ==
    <<"Da", "xay", "ra", "loi", "trong", "qua", "trinh", "xu", "ly.">>
KeyErrorDisplay ==
    <<"Loi", "xac", "thuc", "thanh", "toan.", "Vui", "long", "ket", "noi",
      "lai", "tai", "khoan.">>
BillingLimitDisplay ==
    <<"Tai", "khoan", "thanh", "toan", "cua", "ban", "da", "het", "han", "muc.",
      "Vui", "long", "kiem", "tra", "lai", "Google", "Cloud", "Billing.">>
BusyDisplay ==
    <<"He", "thong", "dang", "ban", "(Qua", "tai).", "Vui", "long", "doi",
      "khoang", "1", "phut", "roi", "thu", "lai.">>

(* Error messages the mocked endpoint may reject with *)

ProviderErrors ==
    { <<"429", "Too", "Many", "Requests">>,
      <<"Quota", "exceeded", "for", "metric">>,
      <<"RESOURCE_EXHAUSTED">>,
      <<"Resource", "has", "been", "exhausted">>,
      <<"check", "quota", "limit:", "0">>,
      <<"Requested", "entity", "was", "not", "found">>,
      <<"429", "Requested", "entity", "was", "not", "found">>,
      <<"413", "Request", "Entity", "Too", "Large">>,
      <<"429", "payload", "too", "large">>,
      <<"Failed", "to", "fetch">>,
      <<>> }

---------------------------------------------------------------------------
(* Responses of the endpoint *)

TextPart == [hasInline |-> FALSE, data |-> ""]
InlinePart(d) == [hasInline |-> TRUE, data |-> d]
PartKinds == {TextPart} \cup {InlinePart(d) : d \in {"", "X", "Y"}}

NoContentCandidate == [hasContent |-> FALSE, parts |-> <<>>]

CandidatesOfSize(s) ==
    {[hasContent |-> TRUE, parts |-> p] : p \in [1..(s - 1) -> PartKinds]}
    \cup (IF s = 1 THEN {NoContentCandidate} ELSE {})

RECURSIVE CandidateSeqs(_)
CandidateSeqs(n) ==
    {<<>>} \cup
    UNION { {<<c>> \o r : c \in CandidatesOfSize(s), r \in CandidateSeqs(n - s)}
            : s \in 1..n }

NoResponse == [hasCandidates |-> FALSE, candidates |-> <<>>]

Responses ==
    {NoResponse} \cup
    {[hasCandidates |-> TRUE, candidates |-> cs] : cs \in CandidateSeqs(MaxResponseSize)}


---------------------------------------------------------------------------
(* Images: a data URL <<prefix, payload>>, the payload standing for the    *)
(* base64 text of a raster of w x h pixels; enc "bad" does not decode.     *)

NoImage == <<>>
NoUrl == <<>>
NoError == <<>>
NoData == [w |-> 0, h |-> 0, enc |-> "none"]

PngUrl(w, h) == <<"data:image/png;base64", [w |-> w, h |-> h, enc |-> "png"]>>
\* a string with no comma that is not an image
RawText == <<[w |-> 0, h |-> 0, enc |-> "bad"]>>

Payload(url) == url[Len(url)]
Decodable(url) == Payload(url).enc \in {"png", "jpeg"}

\* Math.round(n / d) for n >= 0, d > 0
Round(n, d) == (2 * n + d) \div (2 * d)

\* the scaling drops the else branch: a portrait image is never scaled
CompressedSizeLandscapeOnly(width, height) ==
    IF width > height /\ width > maxWidth
    THEN <<maxWidth, Round(height * maxWidth, width)>>
    ELSE <<width, height>>

\* the canvas size compressImage computes from img.width, img.height
CompressedSize(width, height) ==
    IF width > height
    THEN IF width > maxWidth
         THEN <<maxWidth, Round(height * maxWidth, width)>>
         ELSE <<width, height>>
    ELSE IF height > maxWidth
         THEN <<Round(width * maxWidth, height), maxWidth>>
         ELSE <<width, height>>

\* canvas.toDataURL('image/jpeg', quality); a canvas with no pixels gives "data:,"
ToDataURL(size) ==
    IF size[1] = 0 \/ size[2] = 0
    THEN <<"data:", [w |-> size[1], h |-> size[2], enc |-> "empty"]>>
    ELSE <<"data:image/jpeg;base64", [w |-> size[1], h |-> size[2], enc |-> "jpeg"]>>

\* ctx: whether canvas.getContext('2d') gave a context
CompressImage(base64Str, ctx) ==
    IF ~Decodable(base64Str) THEN base64Str
    ELSE IF ~ctx THEN base64Str
    ELSE ToDataURL(CompressedSize(Payload(base64Str).w, Payload(base64Str).h))

CleanBase64(dataUrl) ==
    IF Len(dataUrl) > 1 THEN dataUrl[2] ELSE dataUrl[1]

---------------------------------------------------------------------------
(* Prompt *)

MULTI_ANGLE == "MULTI_ANGLE"
SCENE_PLACEMENT == "SCENE_PLACEMENT"
FeatureTypes == {MULTI_ANGLE, SCENE_PLACEMENT}
OptionOf(feature) == IF feature = MULTI_ANGLE THEN "Back View" ELSE "Living Room"

NoPrompt == [variant |-> "", option |-> "", quantity |-> FALSE]

BuildPrompt(featureType, option) ==
    IF featureType = MULTI_ANGLE
    THEN [variant |-> "photographer", option |-> option, quantity |-> TRUE]
    ELSE IF featureType = SCENE_PLACEMENT
    THEN [variant |-> "interior designer", option |-> option, quantity |-> TRUE]
    ELSE NoPrompt

---------------------------------------------------------------------------
(* One attempt's response *)

DataUri(data) == <<"data:image/jpeg;base64", data>>

CostVnd == Round(ESTIMATED_COST_USD * EXCHANGE_RATE, 10000)
Cost == [usd |-> ESTIMATED_COST_USD, vnd |-> CostVnd]
NoCost == [usd |-> 0, vnd |-> 0]

\* part.inlineData && part.inlineData.data
HasImage(part) == part.hasInline /\ part.data # ""

\* the index of the first part from i on that holds an image, 0 when none does
RECURSIVE FirstImageFrom(_, _)
FirstImageFrom(parts, i) ==
    IF i > Len(parts) THEN 0
    ELSE IF HasImage(parts[i]) THEN i
    ELSE FirstImageFrom(parts, i + 1)

\* the scan keeps going and ends on the last image part
RECURSIVE LastImageFrom(_, _)
LastImageFrom(parts, i) ==
    IF i > Len(parts) THEN 0
    ELSE LET later == LastImageFrom(parts, i + 1) IN
         IF later # 0 THEN later
         ELSE IF HasImage(parts[i]) THEN i ELSE 0

ImageIndexLast(parts) == LastImageFrom(parts, 1)

ImageIndex(parts) == FirstImageFrom(parts, 1)

Returns(url) == [kind |-> "return", imageUrl |-> url, cost |-> Cost, error |-> <<>>]
Throws(message) == [kind |-> "throw", imageUrl |-> NoUrl, cost |-> NoCost, error |-> message]

\* the try block after the await: a result, or the error it throws
ParseResponse(response) ==
    IF response.hasCandidates /\ Len(response.candidates) > 0
    THEN LET c == response.candidates[1] IN
         IF ~c.hasContent THEN Throws(TypeErrorMessage)
         ELSE IF ImageIndex(c.parts) # 0
              THEN Returns(DataUri(c.parts[ImageIndex(c.parts)].data))
              ELSE Throws(NoImageMessage)
    ELSE Throws(NoImageMessage)

---------------------------------------------------------------------------
(* The catch block *)

IsRateLimit(message) ==
    \/ Includes(message, <<"429">>)
    \/ Includes(message, <<"Quota", "exceeded">>)
    \/ Includes(message, <<"RESOURCE_EXHAUSTED">>)

IsEntityNotFound(message) ==
    Includes(message, <<"Requested", "entity", "was", "not", "found">>)

IsTooLarge(message) ==
    Includes(message, <<"413">>) \/ Includes(message, <<"too", "large">>)

\* every retry backs off as after a rate limit
RetryDelayAlwaysBackoff(attempt, message) == (attempt + 1) * 5000 + 2000

\* the backoff does not grow with the attempt
RetryDelayFlatBackoff(attempt, message) ==
    IF IsRateLimit(message) THEN 5000 + 2000 ELSE 1000

RetryDelay(attempt, message) ==
    IF IsRateLimit(message) THEN (attempt + 1) * 5000 + 2000 ELSE 1000

\* no message of its own for a payload that is too large
FinalErrorNoTooLarge(message) ==
    IF IsRateLimit(message) THEN OverloadedMessage ELSE message

\* the rate limit is not told apart once the retries are used up
FinalErrorNoOverloaded(message) ==
    IF IsTooLarge(message) THEN TooLargeMessage ELSE message

\* the error thrown once no retry is left
FinalError(message) ==
    IF IsRateLimit(message) THEN OverloadedMessage
    ELSE IF IsTooLarge(message) THEN TooLargeMessage
    ELSE message

Retry(delay) == [kind |-> "retry", delay |-> delay, error |-> <<>>]
Throw(message) == [kind |-> "throw", delay |-> 0, error |-> message]

\* the retry budget is looked at before the key error
CatchRetryFirst(attempt, message) ==
    IF attempt < MAX_RETRIES THEN Retry(RetryDelay(attempt, message))
    ELSE IF IsEntityNotFound(message) THEN Throw(KEY_ERROR)
    ELSE Throw(FinalError(message))

\* what the catch block does with the error of attempt `attempt`
Catch(attempt, message) ==
    IF IsEntityNotFound(message) THEN Throw(KEY_ERROR)
    ELSE IF attempt < MAX_RETRIES THEN Retry(RetryDelay(attempt, message))
    ELSE Throw(FinalError(message))


---------------------------------------------------------------------------
(* generateFurnitureImage: one record per call that has not settled.       *)
(* requests, delays and failures record what a mocked endpoint and a       *)
(* mocked timer would have seen of the call so far, rejected and response  *)
(* how the endpoint answered the latest attempt.                           *)

NewCall(image, featureType, option) ==
    [pc |-> "compressing", attempt |-> 0,
     image |-> image, featureType |-> featureType, option |-> option,
     ctx |-> TRUE, data |-> NoData, prompt |-> NoPrompt,
     requests |-> 0, delays |-> <<>>, failures |-> <<>>,
     rejected |-> FALSE, response |-> NoResponse]

NoCall ==
    [outcome |-> "none", imageUrl |-> NoUrl, cost |-> NoCost, error |-> <<>>,
     attempt |-> 0, requests |-> 0, delays |-> <<>>, failures |-> <<>>,
     rejected |-> FALSE, response |-> NoResponse]

Settled(call, outcome, result) ==
    [outcome |-> outcome, imageUrl |-> result.imageUrl, cost |-> result.cost,
     error |-> result.error, attempt |-> call.attempt, requests |-> call.requests,
     delays |-> call.delays, failures |-> call.failures,
     rejected |-> call.rejected, response |-> call.response]

Remove(seq, i) == SubSeq(seq, 1, i - 1) \o SubSeq(seq, i + 1, Len(seq))

\* compressImage resolves (img.onload or img.onerror), the image is cleaned, the
\* prompt is built and the request of attempt 0 is issued
CompressDone(i) ==
    /\ calls[i].pc = "compressing"
    /\ \E ctx \in BOOLEAN :
         calls' = [calls EXCEPT ![i] =
                     [@ EXCEPT !.pc = "awaiting",
                               !.ctx = ctx,
                               !.data = CleanBase64(CompressImage(calls[i].image, ctx)),
                               !.prompt = BuildPrompt(calls[i].featureType,
                                                      calls[i].option),
                               !.requests = 1]]
    /\ UNCHANGED <<last, appVars>>

\* the timer of wait(delay) fires: the loop goes on to the next attempt and
\* issues its request
WaitElapsed(i) ==
    /\ calls[i].pc = "waiting"
    /\ calls' = [calls EXCEPT ![i] =
                   [@ EXCEPT !.pc = "awaiting",
                             !.attempt = @ + 1,
                             !.requests = @ + 1,
                             !.rejected = FALSE,
                             !.response = NoResponse]]
    /\ UNCHANGED <<last, appVars>>

\* what the attempt makes of the endpoint's answer: the result, the error the
\* call throws, or the delay before the next attempt
Attempt(call, rejected, message, response) ==
    LET tried == IF rejected THEN Throws(message) ELSE ParseResponse(response) IN
    IF tried.kind = "return"
    THEN [kind |-> "return", result |-> tried, delay |-> 0, caught |-> <<>>,
          failed |-> FALSE]
    ELSE LET c == Catch(call.attempt, tried.error) IN
         [kind |-> c.kind, result |-> Throws(c.error), delay |-> c.delay,
          caught |-> tried.error, failed |-> TRUE]

\* the endpoint settles the request of call i: calls' and last' after the
\* rest of the loop body has run
Settle(i, rejected, message, response) ==
    /\ calls[i].pc = "awaiting"
    /\ \E a \in {Attempt(calls[i], rejected, message, response)} :
         \E call \in {[calls[i] EXCEPT
                         !.rejected = rejected,
                         !.response = response,
                         !.failures = IF a.failed THEN Append(@, a.caught) ELSE @]} :
           IF a.kind = "retry"
           THEN /\ calls' = [calls EXCEPT ![i] =
                               [call EXCEPT !.pc = "waiting",
                                            !.delays = Append(@, a.delay)]]
                /\ last' = last
           ELSE /\ calls' = Remove(calls, i)
                /\ last' = Settled(call, IF a.kind = "return" THEN "returned" ELSE "thrown",
                                   a.result)

---------------------------------------------------------------------------
(* App *)

UPLOAD == "UPLOAD"
SELECT_FEATURE == "SELECT_FEATURE"
PROCESSING == "PROCESSING"
RESULT == "RESULT"

Images == {PngUrl(800, 600), PngUrl(1536, 2048), RawText}

\* what the render shows, from the conditions of the JSX
BillingGateVisible == ~checkingKey /\ ~hasApiKey
MainVisible == ~checkingKey /\ hasApiKey
ErrorBannerVisible == MainVisible /\ error # NoError
UploadSectionVisible == MainVisible /\ step = UPLOAD

\* the selector is on screen whatever the step
FeatureSelectorAlwaysVisible == MainVisible /\ originalImage # NoImage

FeatureSelectorVisible ==
    MainVisible /\ step = SELECT_FEATURE /\ originalImage # NoImage

ResultViewVisible ==
    MainVisible /\ step = RESULT /\ originalImage # NoImage /\ resultImage # NoUrl

\* checkApiKey, run by the mount effect, settles
CheckApiKey ==
    /\ checkingKey
    /\ \E hasKey \in BOOLEAN : hasApiKey' = hasKey
    /\ checkingKey' = FALSE
    /\ UNCHANGED <<step, originalImage, resultImage, costInfo, loading, error,
                   pendingConnect, calls, last>>

\* handleConnectBilling up to its await (without window.aistudio it alerts
\* and changes nothing)
HandleConnectBilling ==
    /\ BillingGateVisible
    /\ pendingConnect < MaxPendingConnect
    /\ pendingConnect' = pendingConnect + 1
    /\ UNCHANGED <<step, originalImage, resultImage, costInfo, loading, error,
                   hasApiKey, checkingKey, calls, last>>

\* openSelectKey resolves
ConnectResolved ==
    /\ pendingConnect > 0
    /\ pendingConnect' = pendingConnect - 1
    /\ hasApiKey' = TRUE
    /\ UNCHANGED <<step, originalImage, resultImage, costInfo, loading, error,
                   checkingKey, calls, last>>

\* openSelectKey rejects
ConnectRejected ==
    /\ pendingConnect > 0
    /\ pendingConnect' = pendingConnect - 1
    /\ UNCHANGED <<step, originalImage, resultImage, costInfo, loading, error,
                   hasApiKey, checkingKey, calls, last>>

HandleImageSelected(base64) ==
    /\ UploadSectionVisible
    /\ originalImage' = base64
    /\ step' = SELECT_FEATURE
    /\ error' = NoError
    /\ UNCHANGED <<resultImage, costInfo, loading, hasApiKey, checkingKey,
                   pendingConnect, calls, last>>

\* handleFeatureSelect up to its await, from FeatureSelector.onSelect or
\* ResultView.onGenerateMore
HandleFeatureSelect(feature, option) ==
    /\ FeatureSelectorVisible \/ ResultViewVisible
    /\ Len(calls) < MaxCalls
    /\ IF originalImage = NoImage
       THEN UNCHANGED <<step, loading, error, calls, last>>
       ELSE /\ step' = PROCESSING
            /\ loading' = TRUE
            /\ error' = NoError
            /\ calls' = Append(calls, NewCall(originalImage, feature, option))
            /\ last' = NoCall
    /\ UNCHANGED <<originalImage, resultImage, costInfo, hasApiKey, checkingKey,
                   pendingConnect>>

\* the message is shown as thrown, the key error apart
DisplayMessageVerbatim(message) ==
    IF message = KEY_ERROR THEN KeyErrorDisplay ELSE message

\* the message the catch block of handleFeatureSelect shows for err.message
DisplayMessage(message) ==
    LET errorMessage == IF message # <<>> THEN message ELSE DefaultDisplay IN
    IF errorMessage = KEY_ERROR THEN KeyErrorDisplay
    ELSE IF \/ Includes(errorMessage, <<"429">>)
            \/ Includes(errorMessage, <<"quota">>)
            \/ Includes(errorMessage, <<"exhausted">>)
            \/ Includes(errorMessage, <<"Resource", "has", "been", "exhausted">>)
         THEN IF \/ Includes(errorMessage, <<"limit:", "0">>)
                 \/ Includes(errorMessage, <<"limit:0">>)
              THEN BillingLimitDisplay
              ELSE BusyDisplay
    ELSE errorMessage

\* the key error does not touch the flag
InvalidatesKeyNever(message) == FALSE

\* whether the catch block calls setHasApiKey(false)
InvalidatesKey(message) ==
    (IF message # <<>> THEN message ELSE DefaultDisplay) = KEY_ERROR

\* handleFeatureSelect after its await, for the call that just settled as last'
Continuation ==
    IF last'.outcome = "returned"
    THEN /\ resultImage' = last'.imageUrl
         /\ costInfo' = last'.cost
         /\ step' = RESULT
         /\ loading' = FALSE
         /\ UNCHANGED <<originalImage, error, hasApiKey, checkingKey, pendingConnect>>
    ELSE /\ error' = DisplayMessage(last'.error)
         /\ hasApiKey' = IF InvalidatesKey(last'.error) THEN FALSE ELSE hasApiKey
         /\ step' = SELECT_FEATURE
         /\ loading' = FALSE
         /\ UNCHANGED <<originalImage, resultImage, costInfo, checkingKey, pendingConnect>>

\* the responses the endpoint is mocked with under the App
MockResponses ==
    { NoResponse,
      [hasCandidates |-> TRUE, candidates |-> <<>>],
      [hasCandidates |-> TRUE, candidates |-> <<NoContentCandidate>>],
      [hasCandidates |-> TRUE, candidates |->
         <<[hasContent |-> TRUE, parts |-> <<TextPart>>]>>],
      [hasCandidates |-> TRUE, candidates |->
         <<[hasContent |-> TRUE, parts |-> <<InlinePart("X")>>]>>],
      [hasCandidates |-> TRUE, candidates |->
         <<[hasContent |-> TRUE, parts |-> <<TextPart, InlinePart("Y")>>]>>] }

\* the endpoint answers the request of an outstanding call
EndpointSettles(i) ==
    \E rejected \in BOOLEAN :
      \E message \in IF rejected THEN ProviderErrors ELSE {<<>>} :
        \E response \in IF rejected THEN {NoResponse} ELSE MockResponses :
          /\ Settle(i, rejected, message, response)
          /\ IF Len(calls') < Len(calls) THEN Continuation ELSE UNCHANGED appVars

HandleReset ==
    /\ ResultViewVisible
    /\ originalImage' = NoImage
    /\ resultImage' = NoUrl
    /\ costInfo' = NoCost
    /\ step' = UPLOAD
    /\ error' = NoError
    /\ UNCHANGED <<loading, hasApiKey, checkingKey, pendingConnect, calls, last>>

HandleBackToUpload ==
    /\ FeatureSelectorVisible
    /\ step' = UPLOAD
    /\ originalImage' = NoImage
    /\ UNCHANGED <<resultImage, costInfo, loading, error, hasApiKey, checkingKey,
                   pendingConnect, calls, last>>

\* the Dismiss button of the error banner
DismissError ==
    /\ ErrorBannerVisible
    /\ error' = NoError
    /\ UNCHANGED <<step, originalImage, resultImage, costInfo, loading, hasApiKey,
                   checkingKey, pendingConnect, calls, last>>

Init ==
    /\ step = UPLOAD
    /\ originalImage = NoImage
    /\ resultImage = NoUrl
    /\ costInfo = NoCost
    /\ loading = FALSE
    /\ error = NoError
    /\ hasApiKey = FALSE
    /\ checkingKey = TRUE
    /\ pendingConnect = 0
    /\ calls = <<>>
    /\ last = NoCall

Next ==
    \/ CheckApiKey
    \/ HandleConnectBilling
    \/ ConnectResolved
    \/ ConnectRejected
    \/ \E base64 \in Images : HandleImageSelected(base64)
    \/ \E feature \in FeatureTypes : HandleFeatureSelect(feature, OptionOf(feature))
    \/ \E i \in DOMAIN calls : CompressDone(i)
    \/ \E i \in DOMAIN calls : EndpointSettles(i)
    \/ \E i \in DOMAIN calls : WaitElapsed(i)
    \/ HandleReset
    \/ HandleBackToUpload
    \/ DismissError

Spec == Init /\ [][Next]_vars

---------------------------------------------------------------------------
(* generateFurnitureImage alone, called once against a mocked endpoint *)

InitClient ==
    /\ step = PROCESSING
    /\ \E base64 \in Images :
         /\ originalImage = base64
         /\ \E feature \in FeatureTypes :
              calls = <<NewCall(base64, feature, OptionOf(feature))>>
    /\ resultImage = NoUrl
    /\ costInfo = NoCost
    /\ loading = TRUE
    /\ error = NoError
    /\ hasApiKey = TRUE
    /\ checkingKey = FALSE
    /\ pendingConnect = 0
    /\ last = NoCall

\* the mocked endpoint answers; the caller is the test
MockSettles(i) ==
    \E rejected \in BOOLEAN :
      \E message \in IF rejected THEN ProviderErrors ELSE {<<>>} :
        \E response \in IF rejected THEN {NoResponse} ELSE Responses :
          /\ Settle(i, rejected, message, response)
          /\ UNCHANGED appVars

NextClient ==
    \/ \E i \in DOMAIN calls : CompressDone(i)
    \/ \E i \in DOMAIN calls : MockSettles(i)
    \/ \E i \in DOMAIN calls : WaitElapsed(i)

SpecClient == InitClient /\ [][NextClient]_vars

---------------------------------------------------------------------------
(* compressImage alone, over a range of image sizes *)

DimValues ==
    {d \in 1..MaxDimension :
        \/ d <= 3
        \/ d >= maxWidth - 2 /\ d <= maxWidth + 3
        \/ d % 97 = 0
        \/ d >= MaxDimension - 1}

CompressInputs ==
    {PngUrl(w, h) : w \in DimValues, h \in DimValues}
    \cup {RawText, <<"data:image/png;base64", [w |-> 0, h |-> 0, enc |-> "bad"]>>}

InitCompress ==
    /\ step = PROCESSING
    /\ \E base64 \in CompressInputs :
         /\ originalImage = base64
         /\ calls = <<NewCall(base64, MULTI_ANGLE, OptionOf(MULTI_ANGLE))>>
    /\ resultImage = NoUrl
    /\ costInfo = NoCost
    /\ loading = TRUE
    /\ error = NoError
    /\ hasApiKey = TRUE
    /\ checkingKey = FALSE
    /\ pendingConnect = 0
    /\ last = NoCall

NextCompress == \E i \in DOMAIN calls : CompressDone(i)

SpecCompress == InitCompress /\ [][NextCompress]_vars

---------------------------------------------------------------------------
(* Properties.  The error classes are written here from the strings, not   *)
(* through the client's operators.  A message that carries 'Requested      *)
(* entity was not found' is of the auth class whatever else it carries.    *)

NotFoundSignal(m) == Includes(m, <<"Requested", "entity", "was", "not", "found">>)

ClientRateSignal(m) ==
    \/ Includes(m, <<"429">>)
    \/ Includes(m, <<"Quota", "exceeded">>)
    \/ Includes(m, <<"RESOURCE_EXHAUSTED">>)

ListedRateSignal(m) ==
    \/ ClientRateSignal(m)
    \/ Includes(m, <<"quota">>)
    \/ Includes(m, <<"exhausted">>)
    \/ Includes(m, <<"Resource", "has", "been", "exhausted">>)

SizeSignal(m) == Includes(m, <<"413">>) \/ Includes(m, <<"too", "large">>)

RateLimitClass(m) == ClientRateSignal(m) /\ ~NotFoundSignal(m)
TransientClass(m) == ~ClientRateSignal(m) /\ ~NotFoundSignal(m)

LastOf(seq) == seq[Len(seq)]

\* the first candidate holds a part with image data
FirstCandidateHasImage(r) ==
    /\ r.hasCandidates
    /\ Len(r.candidates) > 0
    /\ r.candidates[1].hasContent
    /\ \E k \in DOMAIN r.candidates[1].parts :
         r.candidates[1].parts[k].hasInline /\ r.candidates[1].parts[k].data # ""

\* some candidate holds a part with image data
SomeCandidateHasImage(r) ==
    /\ r.hasCandidates
    /\ \E c \in DOMAIN r.candidates :
         /\ r.candidates[c].hasContent
         /\ \E k \in DOMAIN r.candidates[c].parts :
              r.candidates[c].parts[k].hasInline /\ r.candidates[c].parts[k].data # ""

\* url wraps the data of the first image part of parts
WrapsFirstImage(url, parts) ==
    \E k \in DOMAIN parts :
      /\ parts[k].hasInline /\ parts[k].data # ""
      /\ \A j \in 1..(k - 1) : ~(parts[j].hasInline /\ parts[j].data # "")
      /\ url = <<"data:image/jpeg;base64", parts[k].data>>

\* C1 as stated: a call whose every attempt fails with an error carrying one of
\* the listed signals (429, quota, exhausted, Resource has been exhausted,
\* RESOURCE_EXHAUSTED, Quota exceeded) makes exactly 3 requests and throws the
\* overloaded message
C1_AsStated ==
    (/\ last.outcome = "thrown"
     /\ last.failures # <<>>
     /\ \A k \in DOMAIN last.failures :
          ListedRateSignal(last.failures[k]) /\ ~NotFoundSignal(last.failures[k]))
    => /\ last.requests = 3
       /\ last.error = OverloadedMessage

\* C1, amended: a call whose every attempt fails with an error carrying 429,
\* Quota exceeded or RESOURCE_EXHAUSTED makes exactly 3 requests, attempts 0, 1
\* and 2, and throws the overloaded message; no call makes more than 3 requests
C1_RateLimitExhausts ==
    /\ \A i \in DOMAIN calls : calls[i].requests <= 3 /\ calls[i].attempt <= 2
    /\ (/\ last.outcome = "thrown"
        /\ last.failures # <<>>
        /\ \A k \in DOMAIN last.failures : RateLimitClass(last.failures[k]))
       => /\ last.requests = 3
          /\ last.attempt = 2
          /\ Len(last.failures) = 3
          /\ last.error = OverloadedMessage

C1_Witness ==
    /\ last.outcome = "thrown"
    /\ Len(last.failures) = 3
    /\ \A k \in DOMAIN last.failures : RateLimitClass(last.failures[k])
    /\ last.requests = 3
    /\ last.error = OverloadedMessage

\* C2: an attempt that fails with 'Requested entity was not found' ends the call
\* at once: KEY_ERROR is thrown, no delay follows it, no request follows it (so a
\* call that goes on holds no such failure), and on the first attempt exactly 1
\* request was made
C2_KeyErrorAborts ==
    /\ \A i \in DOMAIN calls : \A k \in DOMAIN calls[i].failures :
         ~NotFoundSignal(calls[i].failures[k])
    /\ \A k \in 1..(Len(last.failures) - 1) : ~NotFoundSignal(last.failures[k])
    /\ (last.outcome # "none" /\ last.failures # <<>>
          /\ NotFoundSignal(LastOf(last.failures)) /\ last.outcome = "thrown")
       => /\ last.error = KEY_ERROR
          /\ Len(last.delays) = Len(last.failures) - 1
          /\ last.requests = Len(last.failures)
          /\ (Len(last.failures) = 1 => last.requests = 1 /\ last.delays = <<>>)
    /\ (last.outcome = "returned" /\ last.failures # <<>>)
       => ~NotFoundSignal(LastOf(last.failures))

C2_Witness ==
    /\ last.outcome = "thrown"
    /\ last.error = KEY_ERROR
    /\ last.requests = 1
    /\ last.delays = <<>>
    /\ NotFoundSignal(last.failures[1])

\* C3: when the first attempt fails with a transient error and the second
\* attempt's response holds an image, the call returns that image, having made
\* exactly 2 requests and taken exactly one delay, of 1000 ms
C3_SecondAttemptSucceeds ==
    (/\ last.outcome # "none"
     /\ last.attempt = 1
     /\ Len(last.failures) >= 1
     /\ TransientClass(last.failures[1])
     /\ FirstCandidateHasImage(last.response))
    => /\ last.outcome = "returned"
       /\ WrapsFirstImage(last.imageUrl, last.response.candidates[1].parts)
       /\ last.requests = 2
       /\ last.delays = <<1000>>

C3_Witness ==
    /\ last.outcome = "returned"
    /\ last.failures = << <<"Failed", "to", "fetch">> >>
    /\ last.requests = 2
    /\ last.delays = <<1000>>
    /\ last.imageUrl = <<"data:image/jpeg;base64", "X">>

C5_FinalErrorByLastFailure ==
    (last.outcome = "thrown" /\ last.attempt = 2)
    => /\ Len(last.failures) = 3
       /\ (TransientClass(last.failures[3]) /\ SizeSignal(last.failures[3]))
            => last.error = TooLargeMessage
       /\ (TransientClass(last.failures[3]) /\ ~SizeSignal(last.failures[3]))
            => last.error = last.failures[3]
       /\ (~last.rejected /\ ~(Len(last.response.candidates) > 0
                                 /\ ~last.response.candidates[1].hasContent))
            => last.error = NoImageMessage /\ last.failures[3] = NoImageMessage

C5_Witness ==
    /\ last.outcome = "thrown"
    /\ last.attempt = 2
    /\ ClientRateSignal(last.failures[1])
    /\ last.failures[3] = <<"413", "Request", "Entity", "Too", "Large">>
    /\ last.error = TooLargeMessage

\* at most 2 delays, the k-th after a rate-limit failure being k*5000 + 2000 ms
C10_DelaysOf(failures, delays) ==
    /\ Len(delays) <= 2
    /\ Len(delays) <= Len(failures)
    /\ \A k \in DOMAIN delays :
         RateLimitClass(failures[k]) =>
           /\ delays[k] = ((k - 1) + 1) * 5000 + 2000
           /\ delays[k] = IF k = 1 THEN 7000 ELSE 12000

\* C10: a rate-limit failure of attempt n < 2 is followed by a delay of
\* (n+1)*5000 + 2000 ms (7000, then 12000); a failed attempt before the last is
\* followed by one delay, the last attempt and a successful attempt by none, so a
\* call takes at most 2 delays
C10_BackoffDelays ==
    /\ \A i \in DOMAIN calls :
         /\ C10_DelaysOf(calls[i].failures, calls[i].delays)
         /\ Len(calls[i].delays) = Len(calls[i].failures)
    /\ C10_DelaysOf(last.failures, last.delays)
    /\ last.outcome = "returned" => Len(last.delays) = Len(last.failures)
    /\ last.outcome = "thrown" => Len(last.delays) = Len(last.failures) - 1
    /\ (last.outcome = "thrown" /\ last.attempt < 2)
         => NotFoundSignal(LastOf(last.failures))

C10_Witness ==
    /\ last.outcome = "thrown"
    /\ last.delays = <<7000, 12000>>
    /\ \A k \in DOMAIN last.failures : RateLimitClass(last.failures[k])


C6_Step ==
    /\ Len(calls') < Len(calls) =>
         IF last'.outcome = "thrown" /\ last'.error = KEY_ERROR
         THEN ~hasApiKey' /\ ~MainVisible'
         ELSE hasApiKey' = hasApiKey
    /\ (~checkingKey /\ ~hasApiKey) => Len(calls') <= Len(calls)
    /\ (~checkingKey /\ ~hasApiKey /\ hasApiKey') => pendingConnect' < pendingConnect

\* C6: when a call started by handleFeatureSelect fails with KEY_ERROR the flag
\* hasApiKey becomes false and the main view gives way to the billing gate; any
\* other end of a call leaves the flag as it was; while the flag is false no
\* call is started, and it becomes true again only when an openSelectKey dialog
\* of handleConnectBilling resolves
C6_KeyErrorInvalidates == [][C6_Step]_vars

C6_Witness ==
    /\ last.outcome = "thrown"
    /\ last.error = KEY_ERROR
    /\ ~hasApiKey
    /\ BillingGateVisible
    /\ calls = <<>>

C7_Inv ==
    /\ Len(calls) <= 1
    /\ step = PROCESSING <=> Len(calls) = 1
    /\ step = PROCESSING => ~FeatureSelectorVisible /\ ~ResultViewVisible

C7_Step ==
    /\ Len(calls') > Len(calls) => step # PROCESSING /\ calls = <<>>
    /\ (step = PROCESSING /\ step' # PROCESSING) =>
         /\ Len(calls') < Len(calls)
         /\ last'.outcome \in {"returned", "thrown"}

\* C7: whatever the user does and whenever calls settle, at most one
\* generateFurnitureImage call is outstanding; while step is PROCESSING neither
\* the feature selector nor the result view (the controls that invoke
\* handleFeatureSelect) is shown, and step leaves PROCESSING only in the step in
\* which the outstanding call returns or throws
C7_SingleOutstandingCall == [](C7_Inv) /\ [][C7_Step]_vars

C7_Witness ==
    /\ Len(calls) = 1
    /\ calls[1].pc = "waiting"
    /\ calls[1].attempt = 1
    /\ step = PROCESSING
    /\ resultImage # NoUrl

ClientMessages == {OverloadedMessage, TooLargeMessage, NoImageMessage}

\* C8 as stated: every failure surfaces KEY_ERROR or a message the client made,
\* and for a failure other than KEY_ERROR the error slot holds the message thrown
C8_AsStated ==
    (last.outcome = "thrown" /\ error # NoError)
    => /\ last.error \in {KEY_ERROR} \cup ClientMessages
       /\ last.error # KEY_ERROR => error = last.error

\* C8, amended: a failure surfaces KEY_ERROR, the client's overloaded or
\* too-large message, or the last attempt's error unchanged (provider text
\* included); for a failure other than KEY_ERROR the error slot holds the
\* message thrown, except that an empty message is shown as the default message
\* and a message carrying 429, quota or exhausted is shown as the billing-limit
\* message when it carries 'limit: 0' or 'limit:0' and as the busy message
\* otherwise; the client's own messages are shown as thrown
C8_PresentationReclassifies ==
    (last.outcome = "thrown" /\ error # NoError)
    => /\ last.error \in {KEY_ERROR, OverloadedMessage, TooLargeMessage,
                          LastOf(last.failures)}
       /\ last.error = KEY_ERROR => error = KeyErrorDisplay
       /\ last.error \in ClientMessages => error = last.error
       /\ last.error # KEY_ERROR =>
            error = IF last.error = <<>> THEN DefaultDisplay
                    ELSE IF \/ Includes(last.error, <<"429">>)
                            \/ Includes(last.error, <<"quota">>)
                            \/ Includes(last.error, <<"exhausted">>)
                         THEN IF \/ Includes(last.error, <<"limit:", "0">>)
                                 \/ Includes(last.error, <<"limit:0">>)
                              THEN BillingLimitDisplay
                              ELSE BusyDisplay
                    ELSE last.error

C8_Witness ==
    /\ last.outcome = "thrown"
    /\ last.error = <<"check", "quota", "limit:", "0">>
    /\ error = BillingLimitDisplay
    /\ step = SELECT_FEATURE

Max(a, b) == IF a >= b THEN a ELSE b

\* the size of the output is the size of the input capped at maxWidth
C9_Sized(in, out) ==
    /\ Max(out.w, out.h) <= maxWidth
    /\ Max(in.w, in.h) <= maxWidth => out.w = in.w /\ out.h = in.h
    /\ (Max(in.w, in.h) > maxWidth /\ in.w > in.h) =>
         /\ out.w = maxWidth
         /\ 2 * in.w * out.h <= 2 * in.h * maxWidth + in.w
         /\ 2 * in.w * out.h > 2 * in.h * maxWidth - in.w
    /\ (Max(in.w, in.h) > maxWidth /\ in.w <= in.h) =>
         /\ out.h = maxWidth
         /\ 2 * in.h * out.w <= 2 * in.w * maxWidth + in.h
         /\ 2 * in.h * out.w > 2 * in.w * maxWidth - in.h

\* C9 as stated: every decodable image of at least 1 x 1 comes out with its
\* longer edge at most 1024, unchanged in size when it was within the cap and
\* scaled to a longer edge of exactly 1024 otherwise
C9_AsStated ==
    \A i \in DOMAIN calls :
      (calls[i].pc = "awaiting" /\ Decodable(calls[i].image)
         /\ Payload(calls[i].image).w >= 1 /\ Payload(calls[i].image).h >= 1)
      => C9_Sized(Payload(calls[i].image), calls[i].data)

\* C9, amended: every decodable image of at least 1 x 1 for which the canvas
\* gives a 2D context comes out re-encoded with its longer edge at most 1024,
\* unchanged in size when it was within the cap and otherwise scaled to a longer
\* edge of exactly 1024, the shorter edge by the same ratio, rounded; without a
\* context the input comes back as it was, whatever its size
C9_CompressCapsLongerEdge ==
    \A i \in DOMAIN calls :
      (calls[i].pc = "awaiting" /\ Decodable(calls[i].image)
         /\ Payload(calls[i].image).w >= 1 /\ Payload(calls[i].image).h >= 1)
      => IF calls[i].ctx
         THEN /\ C9_Sized(Payload(calls[i].image), calls[i].data)
              /\ calls[i].data.enc \in {"jpeg", "empty"}
         ELSE calls[i].data = Payload(calls[i].image)

C9_Witness ==
    \E i \in DOMAIN calls :
      /\ calls[i].pc = "awaiting"
      /\ calls[i].ctx
      /\ Payload(calls[i].image).w = 1025
      /\ Payload(calls[i].image).h = 1940
      /\ calls[i].data = [w |-> 541, h |-> 1024, enc |-> "jpeg"]

=============================================================================
